---- MODULE Spec2Model ----
(***************************************************************************)
(* A model of the non_strict crate: the deferred value cells of thunk.rs   *)
(* (ThunkEnum, ThunkCell, ThunkMut and the conversions between them), the  *)
(* LazyCell of lib.rs, and the BackDoor finalizer of back_door.rs.         *)
(*                                                                         *)
(* The cells and the finalizer do not share state, so each has its own     *)
(* next-state relation: Spec runs the cells, SpecBackDoor the finalizer.   *)
(***************************************************************************)
EXTENDS Integers, Sequences, FiniteSets, TLC

\* Values of type T are 0..MaxVal; a cell is forced at most MaxForces times
\* in one lifetime, and converted at most MaxHops times between two forces.
MaxVal == 1
MaxForces == 3
MaxHops == 2
\* A finalizer's wrapped value is accessed at most MaxAccesses times.
MaxAccesses == 2
\* A lazy list is unfolded to at most MaxNodes nodes.
MaxNodes == 3

Vals == 0 .. MaxVal

\* Option<V>
None == [some |-> FALSE]
Some(x) == [some |-> TRUE, v |-> x]

(***************************************************************************)
(* The computations (F: FnOnce() -> T).  "five" is the closure of          *)
(* lazy.rs:31, which counts its invocations and returns 5; "seven" is the  *)
(* closure of lib.rs:98, which records that it ran and returns 7.          *)
(***************************************************************************)
Funcs == {"five", "seven"}

Call(f) == IF f = "five" THEN 5 ELSE 7

(***************************************************************************)
(* thunk.rs: ThunkEnum (lib.rs: LazyOption)                                *)
(***************************************************************************)
Empty == [tag |-> "Empty"]
Function(f) == [tag |-> "Function", f |-> f]
Value(x) == [tag |-> "Value", v |-> x]

ThunkEnum == {Empty} \cup {Function(f) : f \in Funcs} \cup {Value(x) : x \in Vals}

\* (variant) the slot is copied out and left as it is
mem_swap_copy(slot, dance) == [slot |-> slot, dance |-> slot]

\* mem::swap(&mut slot, &mut dance) with dance = Empty
mem_swap(slot, dance) == [slot |-> dance, dance |-> slot]

(***************************************************************************)
(* The cells.  A cell is its kind and its slot; kind "Absent" is no cell   *)
(* (not built yet, or moved out by a consuming operation).                 *)
(***************************************************************************)
Absent == [kind |-> "Absent", inner |-> Empty]

\* (variant) the computation is run at construction
ThunkCell_new_eager(func) == [kind |-> "ThunkCell", inner |-> Value(Call(func))]

ThunkCell_new(func) == [kind |-> "ThunkCell", inner |-> Function(func)]

\* (variant) the cell is built around a default value
ThunkCell_value_default(value) == [kind |-> "ThunkCell", inner |-> Value(0)]

ThunkCell_value(value) == [kind |-> "ThunkCell", inner |-> Value(value)]

ThunkCell_promote(option) ==
    IF option.tag = "Empty" THEN None
    ELSE Some([kind |-> "ThunkCell", inner |-> option])

ThunkMut_new(func) == [kind |-> "ThunkMut", inner |-> Function(func)]

ThunkMut_value(value) == [kind |-> "ThunkMut", inner |-> Value(value)]

\* (variant) an empty slot is wrapped like any other
ThunkMut_promote_any(option) == Some([kind |-> "ThunkMut", inner |-> option])

ThunkMut_promote(option) ==
    IF option.tag = "Empty" THEN None
    ELSE Some([kind |-> "ThunkMut", inner |-> option])

LazyCell_new(func) == [kind |-> "LazyCell", inner |-> Function(func)]

LazyCell_promote(option) ==
    IF option.tag = "Empty" THEN None
    ELSE Some([kind |-> "LazyCell", inner |-> option])

(***************************************************************************)
(* evaluate, in the two halves the call of the computation separates.      *)
(* The first half ends where f() is called (or at the return, when nothing *)
(* is called): it yields the slot as left in the cell and the computation  *)
(* taken out of it (call = None when none is invoked).  The second half is *)
(* the write of the computation's result r.                                *)
(***************************************************************************)
\* (variant) the computation is called where it is, and stays in the slot
ThunkCell_evaluate_take_peek(inner) ==
    IF inner.tag = "Function"
    THEN [inner |-> inner, dance |-> inner, call |-> Some(inner.f)]
    ELSE [inner |-> inner, dance |-> Empty, call |-> None]

ThunkCell_evaluate_take(inner) ==
    IF inner.tag = "Function"
    THEN LET d == mem_swap(inner, Empty)
         IN  [inner |-> d.slot, dance |-> d.dance,
              call |-> IF d.dance.tag = "Function" THEN Some(d.dance.f) ELSE None]
    ELSE [inner |-> inner, dance |-> Empty, call |-> None]

\* (variant) the computation is put back in place of its result
ThunkCell_evaluate_store_keep(dance, r) == dance

ThunkCell_evaluate_store(dance, r) == Value(r)

LazyCell_evaluate_take(inner) ==
    IF inner.tag = "Function"
    THEN LET d == mem_swap(inner, Empty)
         IN  [inner |-> d.slot, dance |-> d.dance,
              call |-> IF d.dance.tag = "Function" THEN Some(d.dance.f) ELSE None]
    ELSE [inner |-> inner, dance |-> Empty, call |-> None]

LazyCell_evaluate_store(dance, r) == Value(r)

\* (variant) only a computation's result is written back
ThunkMut_evaluate_store_lost(dance, r) ==
    IF dance.tag = "Function" THEN Value(r) ELSE Empty

\* ThunkMut::evaluate swaps unconditionally; a slot that held no computation
\* is written back at once (the "value => value" arm).
ThunkMut_evaluate_store(dance, r) ==
    IF dance.tag = "Function" THEN Value(r) ELSE dance

\* (variant) a slot that held no computation is not written back
ThunkMut_evaluate_take_lost(inner) ==
    LET d == mem_swap(inner, Empty)
    IN  [inner |-> d.slot, dance |-> d.dance,
         call |-> IF d.dance.tag = "Function" THEN Some(d.dance.f) ELSE None]

ThunkMut_evaluate_take(inner) ==
    LET d == mem_swap(inner, Empty)
    IN  IF d.dance.tag = "Function"
        THEN [inner |-> d.slot, dance |-> d.dance, call |-> Some(d.dance.f)]
        ELSE [inner |-> ThunkMut_evaluate_store(d.dance, Call("five")),
              dance |-> d.dance, call |-> None]   \* no result is used on this arm

evaluate_take(kind, inner) ==
    CASE kind = "ThunkCell" -> ThunkCell_evaluate_take(inner)
      [] kind = "LazyCell"  -> LazyCell_evaluate_take(inner)
      [] kind = "ThunkMut"  -> ThunkMut_evaluate_take(inner)

evaluate_store(kind, dance, r) ==
    CASE kind = "ThunkCell" -> ThunkCell_evaluate_store(dance, r)
      [] kind = "LazyCell"  -> LazyCell_evaluate_store(dance, r)
      [] kind = "ThunkMut"  -> ThunkMut_evaluate_store(dance, r)

\* The end of deref and deref_mut, after self.evaluate(): the reference to
\* the cached value, or the panic "Deref on empty ...".
\* (variant) a slot without a value reads as a default value
ThunkCell_deref_read_default(inner) ==
    IF inner.tag = "Value" THEN Some(inner.v) ELSE Some(0)

ThunkCell_deref_read(inner) ==
    IF inner.tag = "Value" THEN Some(inner.v) ELSE None

\* (variant) a slot without a value reads as a default value
LazyCell_deref_read_default(inner) ==
    IF inner.tag = "Value" THEN Some(inner.v) ELSE Some(0)

LazyCell_deref_read(inner) ==
    IF inner.tag = "Value" THEN Some(inner.v) ELSE None

deref_read(kind, inner) ==
    IF kind = "LazyCell" THEN LazyCell_deref_read(inner)
    ELSE ThunkCell_deref_read(inner)

(***************************************************************************)
(* The conversions between the two flavors of thunk.rs.                    *)
(***************************************************************************)
\* (variant) the conversion drops a pending computation
ThunkCell_from_reset(as_mut) ==
    [kind |-> "ThunkCell",
     inner |-> IF as_mut.inner.tag = "Function" THEN Empty ELSE as_mut.inner]

ThunkCell_from(as_mut) == [kind |-> "ThunkCell", inner |-> as_mut.inner]

\* (variant) the conversion forces a pending computation
ThunkMut_from_forced(as_cell) ==
    [kind |-> "ThunkMut",
     inner |-> IF as_cell.inner.tag = "Function"
               THEN Value(Call(as_cell.inner.f)) ELSE as_cell.inner]

ThunkMut_from(as_cell) == [kind |-> "ThunkMut", inner |-> as_cell.inner]

(***************************************************************************)
(* State of the cells.                                                     *)
(*   cell     the one cell under observation                               *)
(*   calls    how often each computation has been invoked (the counter of  *)
(*            lazy.rs:30, the flag of lib.rs:97)                           *)
(*   running  the operation whose computation is running now: the frames   *)
(*            of evaluate/deref/into below the call of f()                 *)
(*   result   how the last operation that came back to the caller ended    *)
(*   nested   what the last call made on the cell from inside its own      *)
(*            computation saw and how it ended                             *)
(*   hist     what the properties need of the past: how the cell was       *)
(*            built, the forcing operations begun, the first value read,   *)
(*            whether the caller wrote through deref_mut, the cell as it   *)
(*            was before the conversions since the last force, the value   *)
(*            given to value(), the slot given to promote() or             *)
(*            into_value(), and whether a computation run for a forcing    *)
(*            operation has failed                                         *)
(***************************************************************************)
VARIABLES cell, calls, running, result, nested, hist

cellVars == <<cell, calls, running, result, nested, hist>>

Idle == [op |-> "none", f |-> "five", dance |-> Empty, w |-> None]

NoResult == [op |-> "none", status |-> "none", val |-> None]

NoNested == [op |-> "none", saw |-> "none", status |-> "none", val |-> None]

NoHist == [ctor |-> "none", slot |-> Empty, forces |-> 0, first |-> None,
           written |-> FALSE, hops |-> 0, pre |-> Absent, tripped |-> FALSE,
           given |-> None, option |-> Empty, failed |-> FALSE]

Shared(kind) == kind \in {"ThunkCell", "LazyCell"}

InitCell ==
    /\ cell = Absent
    /\ calls = [f \in Funcs |-> 0]
    /\ running = Idle
    /\ result = NoResult
    /\ nested = NoNested
    /\ hist = NoHist

\* A cell comes into being: the computation's counter starts at 0.
Built(c, ctor, h) ==
    /\ cell.kind = "Absent"
    /\ running.op = "none"
    /\ cell' = c
    /\ calls' = [f \in Funcs |-> 0]
    /\ running' = Idle
    /\ result' = [op |-> ctor, status |-> "ok", val |-> None]
    /\ nested' = NoNested
    /\ hist' = [h EXCEPT !.ctor = ctor, !.slot = c.inner]

Build(c, ctor) == Built(c, ctor, NoHist)

New(kind, func) ==
    Build(CASE kind = "ThunkCell" -> ThunkCell_new(func)
            [] kind = "ThunkMut"  -> ThunkMut_new(func)
            [] kind = "LazyCell"  -> LazyCell_new(func), "new")

ValueOf(kind, v) ==
    Built(CASE kind = "ThunkCell" -> ThunkCell_value(v)
            [] kind = "ThunkMut"  -> ThunkMut_value(v), "value",
          [NoHist EXCEPT !.given = Some(v)])

promote(kind, option) ==
    CASE kind = "ThunkCell" -> ThunkCell_promote(option)
      [] kind = "ThunkMut"  -> ThunkMut_promote(option)
      [] kind = "LazyCell"  -> LazyCell_promote(option)

Promote(kind, option) ==
    LET p == promote(kind, option)
    IN  IF p.some
        THEN Built(p.v, "promote", [NoHist EXCEPT !.option = option])
        ELSE /\ cell.kind = "Absent"
             /\ running.op = "none"
             /\ result' = [op |-> "promote", status |-> "none", val |-> None]
             /\ calls' = [f \in Funcs |-> 0]
             /\ nested' = NoNested
             /\ hist' = [NoHist EXCEPT !.ctor = "promote", !.slot = option,
                                       !.option = option]
             /\ UNCHANGED <<cell, running>>

\* The owner lets go of the cell: a pending computation is dropped unrun.
Release ==
    /\ cell.kind # "Absent"
    /\ running.op = "none"
    /\ cell' = Absent
    /\ UNCHANGED <<calls, running, result, nested, hist>>

(***************************************************************************)
(* The forcing operations, called by the owner of the cell.  op is         *)
(* "evaluate", "deref" or "deref_mut"; w is the value the caller assigns   *)
(* through the reference deref_mut returns (None: it only reads).          *)
(***************************************************************************)
\* What the caller gets once evaluate is over, and the slot it leaves.
Finish(op, kind, inner, w) ==
    IF op = "evaluate"
    THEN [inner |-> inner, status |-> "ok", val |-> None, wrote |-> FALSE]
    ELSE LET r == deref_read(kind, inner)
         IN  IF ~r.some
             THEN [inner |-> inner, status |-> "panic", val |-> None, wrote |-> FALSE]
             ELSE IF w.some
             THEN [inner |-> Value(w.v), status |-> "ok", val |-> Some(w.v), wrote |-> TRUE]
             ELSE [inner |-> inner, status |-> "ok", val |-> r, wrote |-> FALSE]

Noted(h, op, fin) ==
    [h EXCEPT !.first = IF op # "evaluate" /\ fin.status = "ok" /\ ~h.first.some
                        THEN fin.val ELSE h.first,
              !.written = h.written \/ fin.wrote]

Force(op, w) ==
    /\ running.op = "none"
    /\ cell.kind # "Absent"
    /\ op = "evaluate" \/ Shared(cell.kind)
    /\ w.some => op = "deref_mut"
    /\ hist.forces < MaxForces
    /\ LET t == evaluate_take(cell.kind, cell.inner)
           h == [hist EXCEPT !.forces = @ + 1, !.hops = 0, !.pre = Absent]
       IN  IF t.call.some
           THEN /\ cell' = [cell EXCEPT !.inner = t.inner]
                /\ calls' = [calls EXCEPT ![t.call.v] = @ + 1]
                /\ running' = [op |-> op, f |-> t.call.v, dance |-> t.dance, w |-> w]
                /\ hist' = h
                /\ nested' = NoNested
                /\ UNCHANGED result
           ELSE LET fin == Finish(op, cell.kind, t.inner, w)
                IN  /\ cell' = [cell EXCEPT !.inner = fin.inner]
                    /\ result' = [op |-> op, status |-> fin.status, val |-> fin.val]
                    /\ hist' = Noted(h, op, fin)
                    /\ UNCHANGED <<calls, running, nested>>

Evaluate == Force("evaluate", None)

Deref == Force("deref", None)

DerefMut == \E w \in {None} \cup {Some(x) : x \in Vals} : Force("deref_mut", w)

(***************************************************************************)
(* into(): the cell is consumed; a pending computation is run, a cached    *)
(* value is handed over, an empty slot panics.                             *)
(***************************************************************************)
\* (variant) a pending computation is dropped and a default value returned
ThunkCell_into_default(inner) ==
    CASE inner.tag = "Function" -> [call |-> None, status |-> "ok", val |-> Some(0)]
      [] inner.tag = "Value"    -> [call |-> None, status |-> "ok", val |-> Some(inner.v)]
      [] inner.tag = "Empty"    -> [call |-> None, status |-> "panic", val |-> None]

ThunkCell_into(inner) ==
    CASE inner.tag = "Function" -> [call |-> Some(inner.f), status |-> "ok", val |-> None]
      [] inner.tag = "Value"    -> [call |-> None, status |-> "ok", val |-> Some(inner.v)]
      [] inner.tag = "Empty"    -> [call |-> None, status |-> "panic", val |-> None]

ThunkMut_into(inner) ==
    CASE inner.tag = "Function" -> [call |-> Some(inner.f), status |-> "ok", val |-> None]
      [] inner.tag = "Value"    -> [call |-> None, status |-> "ok", val |-> Some(inner.v)]
      [] inner.tag = "Empty"    -> [call |-> None, status |-> "panic", val |-> None]

Into ==
    /\ running.op = "none"
    /\ cell.kind \in {"ThunkCell", "ThunkMut"}
    /\ LET t == IF cell.kind = "ThunkCell" THEN ThunkCell_into(cell.inner)
                ELSE ThunkMut_into(cell.inner)
       IN  /\ cell' = Absent
           /\ IF t.call.some
              THEN /\ calls' = [calls EXCEPT ![t.call.v] = @ + 1]
                   /\ running' = [op |-> "into", f |-> t.call.v,
                                  dance |-> cell.inner, w |-> None]
                   /\ nested' = NoNested
                   /\ UNCHANGED result
              ELSE /\ result' = [op |-> "into", status |-> t.status, val |-> t.val]
                   /\ UNCHANGED <<calls, running, nested>>
           /\ UNCHANGED hist

\* ThunkEnum::into_value: None for Empty, Some(f()) for Function(f), Some(x)
\* for Value(x); val is the Option returned when nothing is called.
ThunkEnum_into_value(slot) ==
    CASE slot.tag = "Empty"    -> [call |-> None, val |-> None]
      [] slot.tag = "Function" -> [call |-> Some(slot.f), val |-> None]
      [] slot.tag = "Value"    -> [call |-> None, val |-> Some(slot.v)]

\* into_value() on a bare slot, one that is in no cell
IntoValue(slot) ==
    /\ running.op = "none"
    /\ cell.kind = "Absent"
    /\ LET t == ThunkEnum_into_value(slot)
       IN  IF t.call.some
           THEN /\ calls' = [f \in Funcs |-> IF f = t.call.v THEN 1 ELSE 0]
                /\ running' = [op |-> "into_value", f |-> t.call.v,
                               dance |-> slot, w |-> None]
                /\ UNCHANGED result
           ELSE /\ calls' = [f \in Funcs |-> 0]
                /\ result' = [op |-> "into_value", status |-> "ok", val |-> t.val]
                /\ UNCHANGED running
    /\ nested' = NoNested
    /\ hist' = [NoHist EXCEPT !.ctor = "slot", !.slot = slot, !.option = slot]
    /\ UNCHANGED cell

(***************************************************************************)
(* The computation, once called, returns its value, fails, or (reached     *)
(* through an alias of a shared cell) calls evaluate or deref on the cell  *)
(* it is being run for.  Under deref_mut(&mut self) and under the          *)
(* operations of ThunkMut the caller holds the cell exclusively, and under *)
(* into() it has been moved: the computation has no alias to call through. *)
(***************************************************************************)
ClosureReturn ==
    /\ running.op # "none"
    /\ LET r == Call(running.f)
       IN  IF running.op \in {"into", "into_value"}
           THEN /\ result' = [op |-> running.op, status |-> "ok", val |-> Some(r)]
                /\ UNCHANGED <<cell, hist>>
           ELSE LET stored == evaluate_store(cell.kind, running.dance, r)
                    fin == Finish(running.op, cell.kind, stored, running.w)
                IN  /\ cell' = [cell EXCEPT !.inner = fin.inner]
                    /\ result' = [op |-> running.op, status |-> fin.status,
                                  val |-> fin.val]
                    /\ hist' = Noted(hist, running.op, fin)
    /\ running' = Idle
    /\ UNCHANGED <<calls, nested>>

ForcingOps == {"evaluate", "deref", "deref_mut"}

\* The failure unwinds through evaluate (and deref): nothing is written back.
ClosurePanic ==
    /\ running.op # "none"
    /\ result' = [op |-> running.op, status |-> "panic", val |-> None]
    /\ running' = Idle
    /\ hist' = [hist EXCEPT !.failed = @ \/ running.op \in ForcingOps]
    /\ UNCHANGED <<cell, calls, nested>>

\* evaluate() called from inside the computation: it runs to its end at once
\* unless it finds a computation to call, which it then runs to its end too.
Reenter(kind, inner) ==
    LET t == evaluate_take(kind, inner)
    IN  IF t.call.some
        THEN [inner |-> evaluate_store(kind, t.dance, Call(t.call.v)), call |-> t.call]
        ELSE [inner |-> t.inner, call |-> None]

NestedEvaluate ==
    /\ running.op \in {"evaluate", "deref"}
    /\ Shared(cell.kind)
    /\ LET n == Reenter(cell.kind, cell.inner)
       IN  /\ cell' = [cell EXCEPT !.inner = n.inner]
           /\ calls' = IF n.call.some THEN [calls EXCEPT ![n.call.v] = @ + 1]
                       ELSE calls
           /\ nested' = [op |-> "evaluate", saw |-> cell.inner.tag,
                         status |-> "returned", val |-> None]
    /\ UNCHANGED <<running, result, hist>>

\* deref() called from inside the computation.  Its panic unwinds through
\* the computation and through the operation that called the computation.
NestedDeref ==
    /\ running.op \in {"evaluate", "deref"}
    /\ Shared(cell.kind)
    /\ LET n == Reenter(cell.kind, cell.inner)
           r == deref_read(cell.kind, n.inner)
       IN  /\ cell' = [cell EXCEPT !.inner = n.inner]
           /\ calls' = IF n.call.some THEN [calls EXCEPT ![n.call.v] = @ + 1]
                       ELSE calls
           /\ IF r.some
              THEN /\ nested' = [op |-> "deref", saw |-> cell.inner.tag,
                                 status |-> "returned", val |-> r]
                   /\ UNCHANGED <<running, result, hist>>
              ELSE /\ nested' = [op |-> "deref", saw |-> cell.inner.tag,
                                 status |-> "panic", val |-> None]
                   /\ running' = Idle
                   /\ result' = [op |-> running.op, status |-> "panic", val |-> None]
                   /\ hist' = [hist EXCEPT !.failed = TRUE]

(***************************************************************************)
(* The conversions consume one cell and build the other around its slot.   *)
(***************************************************************************)
Hopped(h, before) ==
    [h EXCEPT !.hops = @ + 1,
              !.pre = IF h.hops = 0 THEN before ELSE h.pre,
              !.tripped = h.tripped \/ (h.hops = 1 /\ before.inner.tag = "Function")]

IntoThunkMut ==
    /\ running.op = "none"
    /\ cell.kind = "ThunkCell"
    /\ hist.hops < MaxHops
    /\ cell' = ThunkMut_from(cell)
    /\ result' = [op |-> "from", status |-> "ok", val |-> None]
    /\ hist' = Hopped(hist, cell)
    /\ UNCHANGED <<calls, running, nested>>

IntoThunkCell ==
    /\ running.op = "none"
    /\ cell.kind = "ThunkMut"
    /\ hist.hops < MaxHops
    /\ cell' = ThunkCell_from(cell)
    /\ result' = [op |-> "from", status |-> "ok", val |-> None]
    /\ hist' = Hopped(hist, cell)
    /\ UNCHANGED <<calls, running, nested>>

(***************************************************************************)
(* back_door.rs: the finalizer.  A callback (F: FnOnce(T) -> R) is one of  *)
(*   "store"  the closure of back_door.rs:72, which moves its argument     *)
(*            into the external slot option_y and returns ();              *)
(*   "succ"   a callback that returns its argument plus one;               *)
(*   "fail"   a callback that panics.                                      *)
(* Applied to a value, with the external slot as it is, a callback yields  *)
(* how it ended, what it returned (None for ()) and the slot afterwards.   *)
(***************************************************************************)
CallBacks == {"store", "succ", "fail"}

call_once(call_back, thing, y) ==
    CASE call_back = "store" -> [status |-> "ok", ret |-> None, y |-> Some(thing)]
      [] call_back = "succ"  -> [status |-> "ok", ret |-> Some(thing + 1), y |-> y]
      [] call_back = "fail"  -> [status |-> "panic", ret |-> None, y |-> y]

BackDoorBase(thing, call_back) == [thing |-> thing, call_back |-> call_back]

\* (variant) a callback that failed is called a second time
BackDoorBase_into_result_retry(self, y) ==
    LET r == call_once(self.call_back, self.thing, y)
        c == [call_back |-> self.call_back, arg |-> self.thing]
    IN  [status |-> r.status, ret |-> r.ret, y |-> r.y,
         fired |-> IF r.status = "panic" THEN <<c, c>> ELSE <<c>>]

\* BackDoorBase::into_result: the callback is called with the value; fired
\* lists the calls made.
BackDoorBase_into_result(self, y) ==
    LET r == call_once(self.call_back, self.thing, y)
    IN  [status |-> r.status, ret |-> r.ret, y |-> r.y,
         fired |-> <<[call_back |-> self.call_back, arg |-> self.thing]>>]

\* (variant) the option is read and left as it is
Option_peek(option) == [taken |-> option, left |-> option]

\* Option::take: the option is emptied and what it held is handed out.
Option_take(option) == [taken |-> option, left |-> None]

\* bd_expect: Option::expect("Consumed invalid BackDoor object")
bd_expect(value) == IF value.some THEN "ok" ELSE "panic"

BackDoor_new(thing, call_back) == Some(BackDoorBase(thing, call_back))

\* (variant) an emptied object reads as a default value
BackDoor_deref_default(inner) ==
    IF inner.some
    THEN [status |-> "ok", val |-> Some(inner.v.thing)]
    ELSE [status |-> "ok", val |-> Some(0)]

BackDoor_deref(inner) ==
    IF bd_expect(inner) = "ok"
    THEN [status |-> "ok", val |-> Some(inner.v.thing)]
    ELSE [status |-> "panic", val |-> None]

\* (variant) the assignment goes to a copy of the value
BackDoor_deref_mut_copy(inner, w) ==
    IF bd_expect(inner) = "ok"
    THEN [status |-> "ok", inner |-> inner]
    ELSE [status |-> "panic", inner |-> inner]

\* deref_mut, and the assignment of w through the reference it returns
BackDoor_deref_mut(inner, w) ==
    IF bd_expect(inner) = "ok"
    THEN [status |-> "ok", inner |-> Some([inner.v EXCEPT !.thing = w])]
    ELSE [status |-> "panic", inner |-> inner]

\* (variant) the pair is handed out and also left in the object
BackDoor_retrieve_keep(inner) ==
    [status |-> bd_expect(inner), inner |-> inner, pair |-> inner]

BackDoor_retrieve(inner) ==
    LET t == Option_take(inner)
    IN  [status |-> bd_expect(t.taken), inner |-> t.left, pair |-> t.taken]

\* (variant) the callback is called on the pair left in the object
BackDoor_into_result_keep(inner, y) ==
    IF bd_expect(inner) = "ok"
    THEN LET r == BackDoorBase_into_result(inner.v, y)
         IN  [status |-> r.status, inner |-> inner, ret |-> r.ret, y |-> r.y,
              fired |-> r.fired]
    ELSE [status |-> "panic", inner |-> inner, ret |-> None, y |-> y,
          fired |-> <<>>]

BackDoor_into_result(inner, y) ==
    LET t == Option_take(inner)
    IN  IF bd_expect(t.taken) = "ok"
        THEN LET r == BackDoorBase_into_result(t.taken.v, y)
             IN  [status |-> r.status, inner |-> t.left, ret |-> r.ret, y |-> r.y,
                  fired |-> r.fired]
        ELSE [status |-> "panic", inner |-> t.left, ret |-> None, y |-> y,
              fired |-> <<>>]

\* (variant) drop empties the object without calling the callback
BackDoor_drop_forget(inner, y) ==
    [status |-> "ok", inner |-> None, y |-> y, fired |-> <<>>]

\* Drop::drop: self.inner.take().map(BackDoorBase::into_result)
BackDoor_drop(inner, y) ==
    LET t == Option_take(inner)
    IN  IF t.taken.some
        THEN LET r == BackDoorBase_into_result(t.taken.v, y)
             IN  [status |-> r.status, inner |-> t.left, y |-> r.y, fired |-> r.fired]
        ELSE [status |-> "ok", inner |-> t.left, y |-> y, fired |-> <<>>]

(***************************************************************************)
(* State of the finalizer.                                                 *)
(*   bd        the BackDoor: whether the object is alive (built and not    *)
(*             yet dropped), and its field inner                           *)
(*   fired     the calls of the callback so far, with their arguments      *)
(*   option_y  the external slot of back_door.rs:70                        *)
(*   outcome   how the last operation ended and what it returned           *)
(*   bdHist    what the properties need of the past: the value and the     *)
(*             callback given to new, the value as last assigned, the      *)
(*             accesses made, and the way the lifetime ended               *)
(***************************************************************************)
VARIABLES bd, fired, option_y, outcome, bdHist

bdVars == <<bd, fired, option_y, outcome, bdHist>>

(***************************************************************************)
(* lazy.rs: the lazy list.  Every node holds an Rc to the one head cell    *)
(* (the cell of the variables above) and a tail cell of its own, whose     *)
(* computation, Repeat, builds the next node when the tail is first read.  *)
(*   list   the nodes built so far, in the order of the list (the value of *)
(*          a tail cell is the place of the node it holds), and the nodes  *)
(*          through whose head the head cell has been read                 *)
(***************************************************************************)
VARIABLE list

vars == <<cell, calls, running, result, nested, hist,
          bd, fired, option_y, outcome, bdHist, list>>

NoList == [nodes |-> <<>>, via |-> {}]

InitList == list = NoList

\* Rc::clone: one more pointer to the same cell
Rc_clone(rc) == rc

\* Repeat::call_once: a node around a clone of the Rc and a new tail cell
\* that holds the Repeat itself
Repeat_call_once(self) ==
    [head |-> Rc_clone(self), tail |-> ThunkCell_new("Repeat")]

\* let fives = Repeat(Rc::new(ThunkCell::new(five)))();
ListNew(func) ==
    /\ list = NoList
    /\ Build(ThunkCell_new(func), "new")
    /\ list' = [nodes |-> <<Repeat_call_once("head")>>, via |-> {}]

\* **node.head, for the i-th node of the list
ListReadHead(i) ==
    /\ i \in 1 .. Len(list.nodes)
    /\ Force("deref", None)
    /\ list' = [list EXCEPT !.via = @ \cup {i}]

\* *node.tail, for the i-th node of the list: the deref of its tail cell,
\* whose computation does not touch the head cell and returns the new node.
ListReadTail(i) ==
    /\ running.op = "none"
    /\ i \in 1 .. Len(list.nodes)
    /\ LET node == list.nodes[i]
           t == ThunkCell_evaluate_take(node.tail.inner)
       IN  /\ t.call.some
           /\ Len(list.nodes) < MaxNodes
           /\ LET next == Repeat_call_once(node.head)
                   stored == ThunkCell_evaluate_store(t.dance, Len(list.nodes) + 1)
               IN  list' = [list EXCEPT
                              !.nodes = Append([@ EXCEPT ![i].tail.inner = stored],
                                               next)]
    /\ UNCHANGED cellVars

NextList ==
    \/ UNCHANGED bdVars /\ \E f \in Funcs : ListNew(f)
    \/ UNCHANGED bdVars /\ \E i \in 1 .. MaxNodes : ListReadHead(i)
    \/ UNCHANGED bdVars /\ \E i \in 1 .. MaxNodes : ListReadTail(i)
    \/ UNCHANGED <<bdVars, list>> /\ ClosureReturn
    \/ UNCHANGED <<bdVars, list>> /\ ClosurePanic
    \/ UNCHANGED <<bdVars, list>> /\ NestedEvaluate
    \/ UNCHANGED <<bdVars, list>> /\ NestedDeref

NoOutcome == [op |-> "none", status |-> "none", ret |-> None, pair |-> None]

NoBdHist == [thing |-> 0, call_back |-> "store", last |-> 0, accesses |-> 0,
             wrote |-> FALSE, end |-> "none"]

InitBackDoor ==
    /\ bd = [alive |-> FALSE, inner |-> None]
    /\ fired = <<>>
    /\ option_y = None
    /\ outcome = NoOutcome
    /\ bdHist = NoBdHist

\* let mut option_y = None; ... BackDoor::new(thing, call_back)
BD_New(thing, call_back) ==
    /\ ~bd.alive
    /\ bd' = [alive |-> TRUE, inner |-> BackDoor_new(thing, call_back)]
    /\ fired' = <<>>
    /\ option_y' = None
    /\ outcome' = [NoOutcome EXCEPT !.op = "new", !.status = "ok"]
    /\ bdHist' = [NoBdHist EXCEPT !.thing = thing, !.call_back = call_back,
                                  !.last = thing]

BD_Deref ==
    /\ bd.alive
    /\ bdHist.accesses < MaxAccesses
    /\ LET r == BackDoor_deref(bd.inner)
       IN  outcome' = [NoOutcome EXCEPT !.op = "deref", !.status = r.status,
                                       !.ret = r.val]
    /\ bdHist' = [bdHist EXCEPT !.accesses = @ + 1]
    /\ UNCHANGED <<bd, fired, option_y>>

BD_DerefMut(w) ==
    /\ bd.alive
    /\ bdHist.accesses < MaxAccesses
    /\ LET r == BackDoor_deref_mut(bd.inner, w)
       IN  /\ bd' = [bd EXCEPT !.inner = r.inner]
           /\ outcome' = [NoOutcome EXCEPT !.op = "deref_mut", !.status = r.status]
           /\ bdHist' = [bdHist EXCEPT !.accesses = @ + 1,
                           !.last = IF r.status = "ok" THEN w ELSE @,
                           !.wrote = @ \/ r.status = "ok"]
    /\ UNCHANGED <<fired, option_y>>

\* The end of the object's life: drop runs on what is left in inner.  when
\* is how the life ends; a panic of the callback while another panic is
\* unwinding aborts the process.
EndOfLife(inner, y, unwinding) ==
    LET d == BackDoor_drop(inner, y)
    IN  [inner |-> d.inner, y |-> d.y, fired |-> d.fired,
         status |-> IF d.status = "panic" /\ unwinding THEN "abort" ELSE d.status]

\* retrieve(mut self): self is dropped as retrieve returns (or unwinds).
BD_Retrieve ==
    /\ bd.alive
    /\ LET r == BackDoor_retrieve(bd.inner)
           e == EndOfLife(r.inner, option_y, r.status = "panic")
       IN  /\ bd' = [alive |-> FALSE, inner |-> e.inner]
           /\ fired' = fired \o e.fired
           /\ option_y' = e.y
           /\ outcome' = [NoOutcome EXCEPT !.op = "retrieve",
                            !.status = IF e.status = "ok" THEN r.status ELSE e.status,
                            !.pair = IF r.status = "ok" THEN r.pair ELSE None]
    /\ bdHist' = [bdHist EXCEPT !.end = "retrieve"]

\* into_result(mut self): self is dropped as into_result returns, or while
\* the callback's panic unwinds.
BD_IntoResult ==
    /\ bd.alive
    /\ LET r == BackDoor_into_result(bd.inner, option_y)
           e == EndOfLife(r.inner, r.y, r.status = "panic")
       IN  /\ bd' = [alive |-> FALSE, inner |-> e.inner]
           /\ fired' = (fired \o r.fired) \o e.fired
           /\ option_y' = e.y
           /\ outcome' = [NoOutcome EXCEPT !.op = "into_result",
                            !.status = IF e.status = "ok" THEN r.status ELSE e.status,
                            !.ret = IF r.status = "ok" /\ e.status = "ok"
                                    THEN r.ret ELSE None]
    /\ bdHist' = [bdHist EXCEPT !.end = "into_result"]

\* The scope of a live BackDoor ends (mem::drop, back_door.rs:75), either
\* normally or because a panic raised elsewhere unwinds through it.
BD_Drop(unwinding) ==
    /\ bd.alive
    /\ LET e == EndOfLife(bd.inner, option_y, unwinding)
       IN  /\ bd' = [alive |-> FALSE, inner |-> e.inner]
           /\ fired' = fired \o e.fired
           /\ option_y' = e.y
           /\ outcome' = [NoOutcome EXCEPT !.op = "drop", !.status = e.status]
    /\ bdHist' = [bdHist EXCEPT !.end = IF unwinding THEN "unwind" ELSE "drop"]

BD_ScopeEnd == BD_Drop(FALSE)

BD_Unwind == BD_Drop(TRUE)

CellKinds == {"ThunkCell", "ThunkMut", "LazyCell"}

\* The cells' steps leave the finalizer alone, and the other way round.
Next ==
    \/ UNCHANGED <<bdVars, list>> /\ \E k \in CellKinds, f \in Funcs : New(k, f)
    \/ UNCHANGED <<bdVars, list>> /\ \E k \in {"ThunkCell", "ThunkMut"}, v \in Vals : ValueOf(k, v)
    \/ UNCHANGED <<bdVars, list>> /\ \E k \in CellKinds, o \in ThunkEnum : Promote(k, o)
    \/ UNCHANGED <<bdVars, list>> /\ Release
    \/ UNCHANGED <<bdVars, list>> /\ Evaluate
    \/ UNCHANGED <<bdVars, list>> /\ Deref
    \/ UNCHANGED <<bdVars, list>> /\ DerefMut
    \/ UNCHANGED <<bdVars, list>> /\ Into
    \/ UNCHANGED <<bdVars, list>> /\ \E o \in ThunkEnum : IntoValue(o)
    \/ UNCHANGED <<bdVars, list>> /\ ClosureReturn
    \/ UNCHANGED <<bdVars, list>> /\ ClosurePanic
    \/ UNCHANGED <<bdVars, list>> /\ NestedEvaluate
    \/ UNCHANGED <<bdVars, list>> /\ NestedDeref
    \/ UNCHANGED <<bdVars, list>> /\ IntoThunkMut
    \/ UNCHANGED <<bdVars, list>> /\ IntoThunkCell

NextBackDoor ==
    \/ UNCHANGED <<cellVars, list>> /\ \E thing \in Vals, call_back \in CallBacks :
                                 BD_New(thing, call_back)
    \/ UNCHANGED <<cellVars, list>> /\ BD_Deref
    \/ UNCHANGED <<cellVars, list>> /\ \E w \in Vals : BD_DerefMut(w)
    \/ UNCHANGED <<cellVars, list>> /\ BD_Retrieve
    \/ UNCHANGED <<cellVars, list>> /\ BD_IntoResult
    \/ UNCHANGED <<cellVars, list>> /\ BD_ScopeEnd
    \/ UNCHANGED <<cellVars, list>> /\ BD_Unwind

(***************************************************************************)
(* The bodies of retrieve, into_result and drop empty the field inner      *)
(* (back_door.rs:51, 56, 63) while the object itself goes on existing      *)
(* until it has been dropped.  The public interface lets no caller reach   *)
(* the object in between, since retrieve and into_result take it by value; *)
(* code of the module, which sees the field, can.  BD_Body runs one of the *)
(* three bodies and leaves the object in reach, so that the operations can *)
(* be called on an object whose pair has been taken.                       *)
(***************************************************************************)
BD_Body(how) ==
    /\ bd.alive
    /\ LET r == CASE how = "retrieve" ->
                      LET x == BackDoor_retrieve(bd.inner)
                      IN  [status |-> x.status, inner |-> x.inner, ret |-> None,
                           pair |-> IF x.status = "ok" THEN x.pair ELSE None,
                           y |-> option_y, fired |-> <<>>]
                 [] how = "into_result" ->
                      LET x == BackDoor_into_result(bd.inner, option_y)
                      IN  [status |-> x.status, inner |-> x.inner,
                           ret |-> IF x.status = "ok" THEN x.ret ELSE None,
                           pair |-> None, y |-> x.y, fired |-> x.fired]
                 [] how = "drop" ->
                      LET x == BackDoor_drop(bd.inner, option_y)
                      IN  [status |-> x.status, inner |-> x.inner, ret |-> None,
                           pair |-> None, y |-> x.y, fired |-> x.fired]
       IN  /\ bd' = [bd EXCEPT !.inner = r.inner]
           /\ fired' = fired \o r.fired
           /\ option_y' = r.y
           /\ outcome' = [op |-> how, status |-> r.status, ret |-> r.ret,
                          pair |-> r.pair]
    /\ UNCHANGED bdHist

NextConsumed ==
    \/ NextBackDoor
    \/ UNCHANGED <<cellVars, list>> /\ \E how \in {"retrieve", "into_result", "drop"} :
                                 BD_Body(how)

Init == InitCell /\ InitBackDoor /\ InitList

Spec == Init /\ [][Next]_vars

SpecBackDoor == Init /\ [][NextBackDoor]_vars

SpecConsumed == Init /\ [][NextConsumed]_vars

SpecList == Init /\ [][NextList]_vars

(***************************************************************************)
(* Properties of the cells (checked under Spec).                           *)
(***************************************************************************)
Reads == {"deref", "deref_mut"}

NoCalls == \A f \in Funcs : calls[f] = 0

OnlyCalled(f) == calls[f] = 1 /\ \A g \in Funcs \ {f} : calls[g] = 0

\* C1: a cell built by new(f) and forced once or more has had f invoked
\* exactly once (and no other computation), and as long as the caller has
\* assigned nothing through deref_mut, every read that returns a value returns
\* the value the first read returned, which is f's result and the cached value.
SingleEvaluation ==
    (hist.ctor = "new" /\ hist.forces >= 1) =>
        /\ OnlyCalled(hist.slot.f)
        /\ ( /\ result.op \in Reads
             /\ result.status = "ok"
             /\ ~hist.written ) =>
                /\ result.val = hist.first
                /\ hist.first = Some(Call(hist.slot.f))
                /\ cell.kind # "Absent" => cell.inner = Value(hist.first.v)

\* C1 witness: a ThunkCell built by new, forced twice or more, last by a read.
SingleEvaluationWitness ==
    /\ hist.ctor = "new"
    /\ hist.forces >= 2
    /\ cell.kind = "ThunkCell"
    /\ result.op = "deref"
    /\ result.status = "ok"
    /\ calls[hist.slot.f] = 1

\* C2: from new(f) until the first forcing (or consuming) operation the slot
\* is Function(f) and no computation has been invoked; when the first
\* forcing operation is a dereference that returns, f has been invoked once
\* and the dereference returned f's result.
Laziness ==
    /\ ( /\ hist.ctor = "new"
         /\ hist.forces = 0
         /\ running.op # "into"
         /\ result.op # "into" ) =>
            /\ NoCalls
            /\ hist.slot.tag = "Function"
            /\ cell.kind # "Absent" => cell.inner = hist.slot
    /\ ( /\ hist.ctor = "new"
         /\ hist.forces = 1
         /\ result.op \in Reads
         /\ result.status = "ok" ) =>
            /\ OnlyCalled(hist.slot.f)
            /\ ~hist.written => result.val = Some(Call(hist.slot.f))

\* C2 witness: the test by_name of lib.rs, after assert_eq!(*val, 7).
LazinessWitness ==
    /\ hist.ctor = "new"
    /\ hist.forces = 1
    /\ cell.kind = "LazyCell"
    /\ result = [op |-> "deref", status |-> "ok", val |-> Some(Call("seven"))]
    /\ calls["seven"] = 1

ConversionPreserves ==
    [][hist'.hops = hist.hops + 1 =>
        /\ cell'.inner = cell.inner
        /\ cell.kind \in {"ThunkCell", "ThunkMut"}
        /\ cell'.kind \in {"ThunkCell", "ThunkMut"} \ {cell.kind}
        /\ calls' = calls
        /\ running' = running]_vars

\* C8 witness: a still pending ThunkCell has been converted to a ThunkMut.
ConversionPreservesWitness ==
    /\ hist.hops = 1
    /\ hist.pre.kind = "ThunkCell"
    /\ cell.kind = "ThunkMut"
    /\ cell.inner.tag = "Function"
    /\ NoCalls

\* C9: after a conversion and the conversion back, with no force between
\* them, the cell (while it exists) is the cell it was; and a cell that made the round trip
\* while pending has its computation invoked not at all before it is forced
\* or consumed, once from then on, and caches that computation's result.
ConversionRoundTrip ==
    /\ (cell.kind # "Absent" /\ hist.hops > 0 /\ hist.hops % 2 = 0) =>
          cell = hist.pre
    /\ hist.tripped =>
          /\ hist.slot.tag = "Function"
          /\ IF hist.forces = 0 /\ running.op # "into" /\ result.op # "into"
             THEN NoCalls
             ELSE OnlyCalled(hist.slot.f)
          /\ (cell.inner.tag = "Value" /\ ~hist.written) =>
                cell.inner.v = Call(hist.slot.f)

\* C9 witness: a pending cell went ThunkCell -> ThunkMut -> ThunkCell and
\* was then read.
ConversionRoundTripWitness ==
    /\ hist.tripped
    /\ hist.ctor = "new"
    /\ hist.forces = 1
    /\ cell.kind = "ThunkCell"
    /\ result.op = "deref"
    /\ result.status = "ok"
    /\ cell.inner = Value(Call(hist.slot.f))

\* C13: a cell built by value(v) starts with the slot Value(v); no
\* computation is ever invoked and none is ever running; and as long as the
\* caller has assigned nothing through deref_mut, the slot stays Value(v) and
\* every read, and the consumption by into(), returns v.
ValueBypass ==
    hist.ctor = "value" =>
        /\ hist.given.some
        /\ hist.slot = Value(hist.given.v)
        /\ NoCalls
        /\ running.op = "none"
        /\ result.status = "ok"
        /\ ~hist.written =>
              /\ cell.kind # "Absent" => cell.inner = Value(hist.given.v)
              /\ result.op \in Reads \cup {"into"} => result.val = hist.given

\* C13 witness: a ThunkMut built by value(v), converted, read and consumed.
ValueBypassWitness ==
    /\ hist.ctor = "value"
    /\ hist.forces >= 1
    /\ hist.first = hist.given
    /\ result = [op |-> "into", status |-> "ok", val |-> hist.given]

\* C14: a call of promote invokes nothing; given Empty it returns no cell, and given a
\* Function or Value slot it returns a cell whose slot is the slot given.
PromoteKeeps ==
    [][(cell.kind = "Absent" /\ hist'.ctor = "promote" /\ result'.op = "promote") =>
        /\ \A f \in Funcs : calls'[f] = 0
        /\ running'.op = "none"
        /\ hist'.forces = 0
        /\ IF hist'.option = Empty
           THEN cell' = Absent /\ result'.status = "none"
           ELSE /\ result'.status = "ok"
                /\ cell'.kind \in CellKinds
                /\ cell'.inner = hist'.option]_vars

\* C14 witness: promote has wrapped a pending computation in a ThunkMut.
PromoteKeepsWitness ==
    /\ result.op = "promote"
    /\ result.status = "ok"
    /\ cell.kind = "ThunkMut"
    /\ cell.inner.tag = "Function"
    /\ cell.inner = hist.option
    /\ NoCalls

\* The step that begins into() on a cell: a pending computation is invoked
\* (once), a cached value is returned with nothing invoked.
IntoStep ==
    ( /\ running.op = "none"
      /\ cell.kind \in {"ThunkCell", "ThunkMut"}
      /\ running'.op = "into" \/ result'.op = "into" ) =>
        /\ cell' = Absent
        /\ CASE cell.inner.tag = "Function" ->
                  /\ calls' = [calls EXCEPT ![cell.inner.f] = @ + 1]
                  /\ running'.op = "into" /\ running'.f = cell.inner.f
             [] cell.inner.tag = "Value" ->
                  /\ calls' = calls
                  /\ running' = running
                  /\ result' = [op |-> "into", status |-> "ok",
                                val |-> Some(cell.inner.v)]
             [] cell.inner.tag = "Empty" ->
                  /\ calls' = calls
                  /\ result'.status = "panic"

\* The step that begins into_value() on a bare slot.
IntoValueStep ==
    ( /\ running.op = "none"
      /\ cell.kind = "Absent"
      /\ hist'.ctor = "slot" ) =>
        CASE hist'.slot.tag = "Function" ->
                  /\ calls' = [f \in Funcs |-> IF f = hist'.slot.f THEN 1 ELSE 0]
                  /\ running'.op = "into_value" /\ running'.f = hist'.slot.f
          [] hist'.slot.tag = "Value" ->
                  /\ \A f \in Funcs : calls'[f] = 0
                  /\ result' = [op |-> "into_value", status |-> "ok",
                                val |-> Some(hist'.slot.v)]
          [] hist'.slot.tag = "Empty" ->
                  /\ \A f \in Funcs : calls'[f] = 0
                  /\ result' = [op |-> "into_value", status |-> "ok",
                                val |-> None]

\* The step in which the computation invoked by a consumption returns.
IntoReturnStep ==
    ( /\ running.op \in {"into", "into_value"}
      /\ running'.op = "none"
      /\ result'.status = "ok" ) =>
        /\ calls' = calls
        /\ result' = [op |-> running.op, status |-> "ok",
                      val |-> Some(Call(running.f))]

\* Over the whole life: no computation runs twice, and a consumption that
\* returns hands out the value an earlier read returned.
IntoLife ==
    /\ \A f \in Funcs : calls[f] <= 1
    /\ (hist.ctor # "slot" /\ result.op = "into" /\ result.status = "ok") =>
          /\ hist.slot.tag = "Function" => OnlyCalled(hist.slot.f)
          /\ hist.slot.tag = "Value" => NoCalls
          /\ ~hist.written =>
                /\ hist.first.some => result.val = hist.first
                /\ hist.slot.tag = "Function" =>
                      result.val = Some(Call(hist.slot.f))
                /\ hist.slot.tag = "Value" => result.val = Some(hist.slot.v)

\* C15: into() on a cell, and into_value() on a bare slot, invokes a pending
\* computation exactly once and returns its result, and invokes nothing for
\* a cached value and returns it; over a cell's whole life no computation is
\* invoked twice, and the consumed value is the value an earlier read
\* returned (as long as the caller assigned nothing through deref_mut).
ConsumeOnce ==
    [][IntoStep /\ IntoValueStep /\ IntoReturnStep /\ IntoLife']_vars

\* C15 witness: a ThunkCell built by new(f) was read, then consumed, and
\* into() returned the value the read returned, f having run once.
ConsumeOnceWitness ==
    /\ hist.ctor = "new"
    /\ hist.forces >= 1
    /\ hist.hops = 0
    /\ hist.first = Some(Call(hist.slot.f))
    /\ result = [op |-> "into", status |-> "ok", val |-> hist.first]
    /\ calls[hist.slot.f] = 1

\* A dereference by the owner of a shared cell whose slot is Empty.
ReadOfEmptyStep ==
    ( /\ running.op = "none"
      /\ Shared(cell.kind)
      /\ cell.inner = Empty
      /\ hist'.forces = hist.forces + 1
      /\ result'.op \in Reads ) =>
        /\ result'.status = "panic"
        /\ result'.val = None
        /\ cell' = cell
        /\ calls' = calls
        /\ running'.op = "none"

\* A dereference made from inside the computation that found the slot Empty.
NestedReadOfEmpty ==
    (nested.op = "deref" /\ nested.saw = "Empty") =>
        /\ nested.status = "panic"
        /\ nested.val = None
        /\ cell.kind # "Absent" => cell.inner = Empty

\* C16: a deref or deref_mut of a shared cell (ThunkCell, LazyCell) whose
\* slot is Empty at the read, made by the owner or from inside the cell's
\* own computation, panics: it returns no value, invokes nothing and leaves
\* the slot Empty.
ReadOfEmptyIsFatal ==
    [][ReadOfEmptyStep /\ NestedReadOfEmpty']_vars

\* C16 witness: the computation of a LazyCell failed under the first force,
\* and a later deref_mut of the cell, its slot left Empty, has panicked.
ReadOfEmptyWitness ==
    /\ cell = [kind |-> "LazyCell", inner |-> Empty]
    /\ hist.failed
    /\ hist.forces >= 2
    /\ result = [op |-> "deref_mut", status |-> "panic", val |-> None]

\* C17, as claimed: a cell on which no forcing operation is in progress has
\* a Function or a Value in its slot.
SlotNeverStablyEmpty ==
    (cell.kind # "Absent" /\ running.op = "none") =>
        cell.inner.tag \in {"Function", "Value"}

\* C17, amended: a cell on which no forcing operation is in progress has an
\* Empty slot exactly when a computation run for a forcing operation on it
\* has failed, and a Function or a Value otherwise; while a forcing operation
\* is running the computation, the slot is Empty and nothing has failed.
SlotEmptyIffPoisoned ==
    cell.kind # "Absent" =>
        /\ cell.inner.tag \in {"Empty", "Function", "Value"}
        /\ running.op = "none" => (cell.inner = Empty <=> hist.failed)
        /\ running.op # "none" =>
              (running.op \in ForcingOps /\ cell.inner = Empty /\ ~hist.failed)

\* C17 witness: the computation of a ThunkMut failed under evaluate, and the
\* cell, converted since, sits idle with its slot Empty.
SlotEmptyWitness ==
    /\ cell = [kind |-> "ThunkCell", inner |-> Empty]
    /\ running.op = "none"
    /\ hist.failed
    /\ hist.hops = 1
    /\ hist.pre.kind = "ThunkMut"

\* evaluate on a slot that holds a computation invokes it, and when the
\* computation returns the slot holds its result.
EvaluatePendingStep ==
    /\ ( /\ running.op = "none"
         /\ cell.kind # "Absent"
         /\ cell.inner.tag = "Function"
         /\ hist'.forces = hist.forces + 1 ) =>
            /\ running'.op \in ForcingOps
            /\ running'.f = cell.inner.f
            /\ calls' = [calls EXCEPT ![cell.inner.f] = @ + 1]
    /\ ( /\ running.op = "evaluate"
         /\ running'.op = "none"
         /\ result'.status = "ok" ) =>
            /\ cell' = [cell EXCEPT !.inner = Value(Call(running.f))]
            /\ calls' = calls
            /\ result'.op = "evaluate"

\* evaluate on a slot that holds a value changes nothing and invokes nothing.
EvaluateDoneStep ==
    ( /\ running.op = "none"
      /\ cell.kind # "Absent"
      /\ cell.inner.tag = "Value"
      /\ hist'.forces = hist.forces + 1
      /\ result'.op = "evaluate" ) =>
        /\ cell' = cell
        /\ calls' = calls
        /\ running' = running
        /\ result'.status = "ok"

\* A slot that holds a value holds a value for as long as the cell exists.
DoneStaysDone ==
    (cell.kind # "Absent" /\ cell'.kind # "Absent" /\ cell.inner.tag = "Value") =>
        /\ cell'.inner.tag = "Value"
        /\ calls' = calls
        /\ running'.op = "none"

\* C18: evaluate on a Function slot invokes the computation and, when it
\* returns, leaves Value(result); evaluate on a Value slot leaves the cell
\* as it is and invokes nothing, for ThunkMut too; and no step of a cell
\* whose slot is a Value invokes anything or puts anything but a Value there.
ForceIdempotent ==
    [][EvaluatePendingStep /\ EvaluateDoneStep /\ DoneStaysDone]_vars

\* C18 witness: a ThunkMut built by new(f), evaluated, and evaluated again.
ForceIdempotentWitness ==
    /\ hist.ctor = "new"
    /\ hist.forces >= 2
    /\ hist.hops = 0
    /\ cell = [kind |-> "ThunkMut", inner |-> Value(Call(hist.slot.f))]
    /\ result = [op |-> "evaluate", status |-> "ok", val |-> None]
    /\ OnlyCalled(hist.slot.f)

\* The step in which the computation run for a forcing operation fails: the
\* operation ends in the panic, and nothing is written back.
FailureStep ==
    (running.op \in ForcingOps /\ hist'.failed) =>
        /\ ~hist.failed
        /\ cell.inner = Empty
        /\ cell' = cell
        /\ calls' = calls
        /\ running'.op = "none"
        /\ result' = [op |-> running.op, status |-> "panic", val |-> None]

\* From the failure on: the slot is Empty, the computation that failed is
\* the only one ever invoked and was invoked once, an evaluate returns with
\* nothing done, and a read or into() panics.
Poisoned ==
    hist.failed =>
        /\ hist.slot.tag = "Function"
        /\ OnlyCalled(hist.slot.f)
        /\ running.op = "none"
        /\ cell.kind # "Absent" => cell.inner = Empty
        /\ result.op \in {"evaluate", "deref", "deref_mut", "into", "from"}
        /\ result.op \in Reads \cup {"into"} =>
              (result.status = "panic" /\ result.val = None)
        /\ hist.first = None

\* C19: when the computation fails under a forcing operation the panic
\* reaches the caller and the slot is left Empty; from then on nothing is
\* invoked again: an evaluate returns with nothing done, and a read panics
\* and returns no value.
FailurePoisons ==
    [][FailureStep /\ Poisoned']_vars

\* C19 witness: after the failure under an earlier force, a later evaluate
\* of the poisoned ThunkCell has returned with nothing done.
FailurePoisonsWitness ==
    /\ hist.failed
    /\ hist.forces >= 2
    /\ cell = [kind |-> "ThunkCell", inner |-> Empty]
    /\ result = [op |-> "evaluate", status |-> "ok", val |-> None]
    /\ OnlyCalled(hist.slot.f)

(***************************************************************************)
(* Properties of the finalizer (checked under SpecBackDoor).               *)
(***************************************************************************)
Wrapped == [call_back |-> bdHist.call_back, arg |-> bdHist.last]

\* C4, as claimed: however the lifetime ends, the callback has been called
\* exactly once, with the wrapped value.
FinalizerExactlyOnce ==
    bdHist.end # "none" => fired = <<Wrapped>>

\* C4, amended: the callback is never called while the object is alive and
\* never twice; when the lifetime ends by into_result or by drop (normal or
\* unwinding) it has been called exactly once, with the wrapped value; when
\* it ends by retrieve it has not been called.
FinalizerOnceUnlessRetrieved ==
    /\ Len(fired) <= 1
    /\ bd.alive => fired = <<>>
    /\ bdHist.end \in {"into_result", "drop", "unwind"} => fired = <<Wrapped>>
    /\ bdHist.end = "retrieve" => fired = <<>>

\* C4 witness: a lifetime that ended by into_result after an assignment.
FinalizerOnceWitness ==
    /\ bdHist.end = "into_result"
    /\ bdHist.wrote
    /\ Len(fired) = 1

\* C5: when the lifetime ends by drop, normal or unwinding, the callback has
\* been called exactly once, with the wrapped value (the value given to new
\* if nothing was assigned since), nothing is returned, the object is empty,
\* and the external slot written by the callback "store" holds that value.
FinalizerImplicit ==
    bdHist.end \in {"drop", "unwind"} =>
        /\ fired = <<Wrapped>>
        /\ ~bdHist.wrote => fired[1].arg = bdHist.thing
        /\ outcome.op = "drop" /\ outcome.ret = None /\ outcome.pair = None
        /\ bd = [alive |-> FALSE, inner |-> None]
        /\ bdHist.call_back = "store" =>
              (option_y = Some(bdHist.last) /\ outcome.status = "ok")

\* C5 witness: main of back_door.rs when its scope is left by an unwind.
FinalizerImplicitWitness ==
    /\ bdHist.end = "unwind"
    /\ bdHist.call_back = "store"
    /\ ~bdHist.wrote
    /\ option_y = Some(bdHist.thing)

\* C6: when the lifetime ends by into_result the callback has been called
\* exactly once, with the wrapped value, the drop that follows finds the
\* object empty, and into_result returns what the callback returned.
FinalizerExplicit ==
    bdHist.end = "into_result" =>
        /\ fired = <<Wrapped>>
        /\ bd = [alive |-> FALSE, inner |-> None]
        /\ outcome.op = "into_result"
        /\ bdHist.call_back = "succ" =>
              (outcome.status = "ok" /\ outcome.ret = Some(bdHist.last + 1))
        /\ bdHist.call_back = "store" =>
              (outcome.status = "ok" /\ outcome.ret = None
                 /\ option_y = Some(bdHist.last))
        /\ bdHist.call_back = "fail" => outcome.status = "panic"

\* C6 witness: into_result has returned the result of the callback "succ".
FinalizerExplicitWitness ==
    /\ bdHist.end = "into_result"
    /\ bdHist.call_back = "succ"
    /\ outcome.ret = Some(bdHist.thing + 1)
    /\ Len(fired) = 1

\* C7: retrieve returns the stored value and callback, calls nothing, and
\* leaves the object empty, so that the drop that follows calls nothing.
RetrieveInert ==
    bdHist.end = "retrieve" =>
        /\ outcome.op = "retrieve" /\ outcome.status = "ok"
        /\ outcome.pair = Some(BackDoorBase(bdHist.last, bdHist.call_back))
        /\ fired = <<>>
        /\ option_y = None
        /\ bd = [alive |-> FALSE, inner |-> None]

\* C7 witness: the callback "store" was retrieved and never called.
RetrieveInertWitness ==
    /\ bdHist.end = "retrieve"
    /\ bdHist.call_back = "store"
    /\ outcome.pair.some
    /\ option_y = None

\* C10: while the object is alive, whatever was read and assigned, the pair
\* is present with the value as last assigned and the callback given to new,
\* and the callback has not been called; a read returns the value as last
\* assigned; and the value handed to the callback or returned by retrieve is
\* the value as last assigned.
AccessTransparent ==
    /\ bd.alive =>
          /\ bd.inner = Some(BackDoorBase(bdHist.last, bdHist.call_back))
          /\ fired = <<>>
          /\ option_y = None
    /\ outcome.op = "deref" =>
          (outcome.status = "ok" /\ outcome.ret = Some(bdHist.last))
    /\ outcome.op = "deref_mut" => outcome.status = "ok"
    /\ \A i \in 1 .. Len(fired) : fired[i].arg = bdHist.last
    /\ (outcome.op = "retrieve" /\ outcome.pair.some) =>
          outcome.pair.v.thing = bdHist.last

\* C10 witness: the value was assigned and read, and the callback was then
\* called with the assigned value, not the one given to new.
AccessTransparentWitness ==
    /\ bdHist.accesses >= 2
    /\ bdHist.wrote
    /\ bdHist.last # bdHist.thing
    /\ bdHist.end = "drop"
    /\ fired = <<Wrapped>>

(***************************************************************************)
(* Properties of an object whose pair has been taken (SpecConsumed).       *)
(***************************************************************************)
\* C11: every step taken on an object that is still there with its pair
\* taken leaves the callback uncalled, the external slot and the empty field
\* as they are; retrieve, into_result, deref and deref_mut end in the panic
\* of bd_expect and return nothing, and drop ends normally.
PostConsumption ==
    [][(bd.alive /\ ~bd.inner.some) =>
        /\ fired' = fired
        /\ option_y' = option_y
        /\ ~bd'.inner.some
        /\ outcome'.op \in {"retrieve", "into_result", "deref", "deref_mut"} =>
              /\ outcome'.status = "panic"
              /\ outcome'.ret = None
              /\ outcome'.pair = None
        /\ outcome'.op = "drop" => outcome'.status = "ok"]_vars

\* C11 witness: into_result has called the callback, and a second
\* into_result on the same object has panicked without calling it again.
PostConsumptionWitness ==
    /\ bd.alive
    /\ ~bd.inner.some
    /\ fired = <<Wrapped>>
    /\ outcome.op = "into_result"
    /\ outcome.status = "panic"
    /\ bdHist.call_back = "succ"

(***************************************************************************)
(* Properties of the lazy list (checked under SpecList).                   *)
(***************************************************************************)
\* C12: however many nodes have been built by reading tails, and through
\* whichever nodes the head is read, the head's computation has not been
\* invoked before the first read of the head and has been invoked exactly
\* once from that read on; every read that returns, returns its result.
SharedEvaluation ==
    list.nodes # <<>> =>
        /\ hist.ctor = "new" /\ hist.slot.tag = "Function"
        /\ \A i \in 1 .. Len(list.nodes) : list.nodes[i].head = "head"
        /\ IF hist.forces = 0
           THEN NoCalls /\ cell.inner = hist.slot /\ list.via = {}
           ELSE OnlyCalled(hist.slot.f)
        /\ (result.op = "deref" /\ result.status = "ok") =>
              /\ result.val = Some(Call(hist.slot.f))
              /\ cell.inner = Value(Call(hist.slot.f))

\* C12 witness: the head has been read through two nodes of a list of two
\* nodes or more, as in the test lazy_list.
SharedEvaluationWitness ==
    /\ Len(list.nodes) >= 2
    /\ Cardinality(list.via) >= 2
    /\ result.op = "deref"
    /\ result.status = "ok"
    /\ calls[hist.slot.f] = 1

\* C20: the callback is started at most once on every path; when it fails
\* under into_result(), the drop that runs while the panic unwinds finds the
\* object emptied and calls nothing, so the caller gets that one panic (no
\* second panic aborts the process), the callback has been called once,
\* with the wrapped value, and nothing is returned or stored; a callback
\* that fails under drop has been called once as well.
CallbackNotRetried ==
    /\ Len(fired) <= 1
    /\ (bdHist.call_back = "fail" /\ bdHist.end = "into_result") =>
          /\ fired = <<Wrapped>>
          /\ bd = [alive |-> FALSE, inner |-> None]
          /\ option_y = None
          /\ outcome = [op |-> "into_result", status |-> "panic",
                        ret |-> None, pair |-> None]
    /\ (bdHist.call_back = "fail" /\ bdHist.end \in {"drop", "unwind"}) =>
          /\ fired = <<Wrapped>>
          /\ bd = [alive |-> FALSE, inner |-> None]
          /\ outcome.status = IF bdHist.end = "drop" THEN "panic" ELSE "abort"

\* C20 witness: into_result() on an object whose callback fails, after an
\* assignment to the wrapped value: one call, one panic.
CallbackNotRetriedWitness ==
    /\ bdHist.call_back = "fail"
    /\ bdHist.end = "into_result"
    /\ bdHist.wrote
    /\ Len(fired) = 1
    /\ outcome.status = "panic"
    /\ ~bd.alive

====
